---- MODULE Spec2Model ----
\* A model of the sorter lifecycle of spikesorters: BaseSorter (basesorter.py),
\* with the adapter hooks (_setup_recording, _run, get_result_from_folder) and the
\* collaborators (recording, sorting, filesystem, threads) as nondeterministic
\* environments.
EXTENDS Integers, Sequences, FiniteSets, TLC

\* ------------------------------------------------------------------ bounds
MaxGroups == 3       \* most groups a grouping property splits a recording into
MaxCopies == 2       \* most default_params() results the caller holds at once
NUnits == 1          \* units in one partition's parsed sorting

\* ------------------------------------------------------------------ values
Keys == {"a", "b"}               \* keys of the adapter's _default_params
BadKeys == {"y", "z"}            \* keys no adapter declares
Vals == {1}                      \* the values a caller supplies (the defaults are 0)

IntV(n) == [t |-> "int", v |-> n]
RefV(o) == [t |-> "ref", v |-> o]

\* The object holding the class attribute BaseSorter._default_params; object o
\* of a heap h is h[o].
DefaultParamsId == 1

\* The class-level declaration: "a" is a scalar, "b" a nested mutable value.
DeclaredHeap == <<[a |-> IntV(0), b |-> RefV(2)], [x |-> IntV(0)]>>

Range0(n) == 0 .. (n - 1)
Len0(l) == Cardinality(DOMAIN l)
EmptyList == [i \in {} |-> 0]

\* The value of object o with every reference followed (what == compares in
\* Python for dicts and lists).
RECURSIVE DeepValue(_, _)
DeepValue(h, o) ==
    [k \in DOMAIN h[o] |->
        IF h[o][k].t = "ref"
        THEN [t |-> "obj", o |-> DeepValue(h, h[o][k].v)]
        ELSE [t |-> "int", n |-> h[o][k].v]]

DeclaredDefaults == DeepValue(DeclaredHeap, DefaultParamsId)

\* copy.copy: a new dict whose values are the same objects.
ShallowCopy(h, o) == [heap |-> Append(h, h[o]), id |-> Len(h) + 1]

\* copy.deepcopy of object o: a new object, and a new object for every object
\* it refers to (the referred objects hold scalars only).
DeepCopy(h, o) ==
    LET refKeys == {k \in DOMAIN h[o] : h[o][k].t = "ref"}
        base == Len(h) + 1
        num == CHOOSE f \in [refKeys -> (base + 1) .. (base + Cardinality(refKeys))] :
                   \A k1, k2 \in refKeys : k1 /= k2 => f[k1] /= f[k2]
        top == [k \in DOMAIN h[o] |-> IF k \in refKeys THEN RefV(num[k]) ELSE h[o][k]]
        new == [i \in (base + 1) .. (base + Cardinality(refKeys)) |->
                   h[h[o][CHOOSE k \in refKeys : num[k] = i].v]]
    IN [heap |-> [i \in 1 .. (base + Cardinality(refKeys)) |->
                     IF i <= Len(h) THEN h[i] ELSE IF i = base THEN top ELSE new[i]],
        id |-> base]

\* ------------------------------------------------------------------ filesystem
BaseDir == <<>>                          \* Path(output_folder).absolute()
SubDir(i) == <<i>>                       \* output_folder / str(i)
AllDirs == {BaseDir} \cup {SubDir(i) : i \in Range0(MaxGroups)}

Absent == [st |-> "absent", by |-> {}]
EmptyDir == [st |-> "empty", by |-> {}]
IsUnder(x, d) == x = d \/ d = BaseDir

\* Path.is_dir
IsDir(f, d) == f[d].st /= "absent"

\* os.makedirs(d): d and its missing parents.
MakeDirs(f, d) ==
    [x \in DOMAIN f |-> IF IsUnder(d, x) /\ ~IsDir(f, x) THEN EmptyDir ELSE f[x]]

\* shutil.rmtree(d, ignore_errors=True) for every d of ds, where the removals
\* of the directories in kept fail (and the failure is ignored).
RmTrees(f, ds, kept) ==
    [x \in DOMAIN f |-> IF \E d \in ds \ kept : IsUnder(x, d) THEN Absent ELSE f[x]]

\* ------------------------------------------------------------------ collaborators
\* A (sub-)recording: id is its position among the groups, grp the value of the
\* channel property 'group' of its first channel.
Rec(i, g) == [id |-> i, grp |-> g]

\* recording.get_sampling_frequency(), a symbolic value per recording.
SamplingFrequency(rec) == rec.id

\* The recordings a caller passes: whether the channels carry 'location', how
\* many distinct values the grouping property takes (0 for a recording with no
\* channel), and the 'group' of the first channel of each group of channels.
Layouts(n) == {[i \in Range0(n) |-> 0], [i \in Range0(n) |-> (n - 1) - i]}
Recordings ==
    UNION {{[hasLoc |-> l, n |-> n, first |-> f] : l \in BOOLEAN, f \in Layouts(n)} :
              n \in 0 .. MaxGroups}

\* recording.get_sub_extractors_by_property(prop): one sub-recording per
\* distinct value, in increasing order of the value; the values of 'group' are
\* 0, 1, ...
GetSubExtractorsByProperty(rec, prop) ==
    [i \in Range0(rec.n) |-> Rec(i, IF prop = "group" THEN i ELSE rec.first[i])]

\* A sorting: units are [src, unit, tag], src the partition whose tool wrote
\* the unit, tag the unit property 'group' ({} when unset); sf is the sampling
\* frequency ({} when unset). kind "null" is None, kind "raise" an exception.
NullResult == [kind |-> "null", units |-> {}, sf |-> {}]
RaiseResult == [kind |-> "raise", units |-> {}, sf |-> {}]
Sorting(i) ==
    [kind |-> "single",
     units |-> {[src |-> i, unit |-> u, tag |-> {}] : u \in 1 .. NUnits},
     sf |-> {}]

\* sorting.set_unit_property(unit, 'group', group) for every unit of sorting.
SetUnitProperty(sorting, group) ==
    [sorting EXCEPT !.units = {[u EXCEPT !.tag = {group}] : u \in sorting.units}]

\* se.MultiSortingExtractor(sortings): the union of the units, properties kept.
MultiSortingExtractor(sortings) ==
    [kind |-> "multi",
     units |-> UNION {sortings[i].units : i \in DOMAIN sortings},
     sf |-> {}]

\* ------------------------------------------------------------------ adapter hooks
\* What _run leaves in its folder: the tool's output, nothing usable, or files
\* the parser chokes on.
RunOutputs == {"out", "nothing", "junk"}

\* _setup_recording(recording, output_folder): stages the input files.
SetupRecording(f, rec, d) == [f EXCEPT ![d] = [st |-> "staged", by |-> {rec.id}]]

\* _run(recording, output_folder) returning normally, the tool having left o.
RunTool(f, rec, d, o) == [f EXCEPT ![d] = [st |-> o, by |-> {rec.id}]]

\* get_result_from_folder(output_folder)
GetResultFromFolder(f, d) ==
    CASE f[d].st = "out" -> Sorting(CHOOSE i \in f[d].by : TRUE)
      [] f[d].st = "junk" -> RaiseResult
      [] OTHER -> NullResult

\* ------------------------------------------------------------------ the registry
\* sorterlist.sorter_full_list by sorter_name, in the order of registration: the
\* two adapters with a path to set, KilosortSorter and Kilosort2Sorter.
sorter_full_list == <<"kilosort", "kilosort2">>

\* The order sorted() puts the names in.
NameRank(s) == IF s = "kilosort" THEN 1 ELSE 2

\* sorted(names)
RECURSIVE Sorted(_)
Sorted(names) ==
    IF names = <<>> THEN <<>>
    ELSE LET m == CHOOSE i \in DOMAIN names :
                      \A j \in DOMAIN names : NameRank(names[i]) <= NameRank(names[j])
         IN <<names[m]>> \o Sorted([i \in 1 .. Len(names) - 1 |->
                                        IF i < m THEN names[i] ELSE names[i + 1]])

\* [s for s in sorter_full_list if s.installed], k and k2 the two flags.
InstalledOf(k, k2) ==
    SelectSeq(sorter_full_list, LAMBDA s : IF s = "kilosort" THEN k ELSE k2)

\* What set_kilosort_path is given: a folder holding preprocessData.m, or one
\* that does not.
Paths == {"tool", "empty"}

\* check_if_installed(kilosort_path), kilosort_path a string
CheckIfInstalled(path) == path = "tool"

\* ------------------------------------------------------------------ state
VARIABLES
    installed,          \* the class attribute installed of the adapter, which the
                        \* registry holds under the name "kilosort"
    installed2,         \* Kilosort2Sorter.installed
    installed_sorter_list,  \* sorterlist.installed_sorter_list
    retNames,           \* what installed_sorters / available_sorters last returned
    heap,               \* the dicts and nested values: _default_params, its copies
    handles,            \* the mappings default_params() has returned to the caller
    retParams,          \* the value of the mapping last returned by default_params
    pc,                 \* where the caller / run() is
    idx,                \* the loop index i of the loop run() is in
    parallel,           \* self.parallel
    delete_folders,     \* self.delete_folders
    grouping_property,  \* self.grouping_property
    recording_list,     \* self.recording_list
    output_folders,     \* self.output_folders
    params,             \* self.params (an object of heap; 0 before construction)
    fs,                 \* the directories under the output folder
    setupLog,           \* the partitions _setup_recording has returned for, in order
    runState,           \* per partition, its thread / its _run call: "none",
                        \* "started", "running", "failed", or what it returned with
    lastOp,             \* the last public call and how it ended
    errKeys,            \* the keys the last set_params error names
    ret,                \* what the last get_result returned
    retList,            \* what the last get_result_list returned
    rmFailed,           \* the folders the last get_result failed to remove
    ctor                \* the constructor call: bad, whether the adapter was not
                        \* installed or locations were required and missing;
                        \* groups, how many values the grouping property takes

regVars == <<installed, installed2, installed_sorter_list, retNames>>
classVars == <<regVars, heap, handles, retParams>>
selfVars == <<parallel, delete_folders, grouping_property, recording_list, output_folders, params>>
callVars == <<errKeys, ret, retList, rmFailed>>
vars == <<installed, installed2, installed_sorter_list, retNames, heap, handles, retParams, pc, idx, parallel, delete_folders,
          grouping_property, recording_list, output_folders, params, fs, setupLog,
          runState, lastOp, errKeys, ret, retList, rmFailed, ctor>>

Op(name, outcome, err) == [op |-> name, outcome |-> outcome, err |-> err]
NoKv == [k \in {} |-> 0]
ResetCall == errKeys' = {} /\ ret' = NullResult /\ retList' = EmptyList /\ rmFailed' = {}

\* The output folder before the program starts: nothing there, or the base
\* folder and its subfolder 0 left by an earlier run.
InitialFs ==
    {[d \in AllDirs |-> Absent],
     [d \in AllDirs |-> IF d \in {BaseDir, SubDir(0)} THEN EmptyDir ELSE Absent]}

Init ==
    /\ installed \in BOOLEAN
    /\ installed2 = FALSE
    /\ installed_sorter_list = InstalledOf(installed, installed2)
    /\ retNames = <<>>
    /\ heap = DeclaredHeap
    /\ handles = {}
    /\ retParams = NoKv
    /\ pc = "new"
    /\ idx = 0
    /\ parallel = FALSE
    /\ delete_folders = FALSE
    /\ grouping_property = "None"
    /\ recording_list = EmptyList
    /\ output_folders = EmptyList
    /\ params = 0
    /\ fs \in InitialFs
    /\ setupLog = <<>>
    /\ runState = EmptyList
    /\ lastOp = Op("none", "ok", "")
    /\ errKeys = {}
    /\ ret = NullResult
    /\ retList = EmptyList
    /\ rmFailed = {}
    /\ ctor = [bad |-> FALSE, groups |-> 0]

N == Len0(recording_list)


\* ------------------------------------------------------------------ BaseSorter
\* default_params with copy.copy in place of copy.deepcopy.
default_params_shallow(h) == ShallowCopy(h, DefaultParamsId)

\* default_params(): copy.deepcopy(self._default_params)
default_params(h) == DeepCopy(h, DefaultParamsId)

\* __init__ without the assertion on installed.
InitErrorNoAssert(rec, requires_locations) ==
    IF requires_locations /\ ~rec.hasLoc THEN "RuntimeError" ELSE ""

\* __init__, the checks at its top: the exception they raise, "" for none.
InitError(rec, requires_locations) ==
    IF ~installed THEN "AssertionError"
    ELSE IF requires_locations /\ ~rec.hasLoc THEN "RuntimeError"
    ELSE ""

\* __init__, self.recording_list
RecordingList(rec, gp) ==
    IF gp = "None" THEN [i \in Range0(1) |-> Rec(0, 0)]
    ELSE GetSubExtractorsByProperty(rec, gp)

\* self.output_folders with every partition in the output folder itself.
OutputFoldersShared(rec, gp) ==
    IF gp /= "None" /\ rec.n > 1 THEN [i \in Range0(rec.n) |-> BaseDir]
    ELSE [i \in Range0(1) |-> BaseDir]

\* self.output_folders with the base folder for a single group.
OutputFoldersBaseForOne(rec, gp) ==
    IF gp = "None" \/ rec.n <= 1 THEN [i \in Range0(1) |-> BaseDir]
    ELSE [i \in Range0(rec.n) |-> SubDir(i)]

\* __init__, self.output_folders
OutputFolders(rec, gp) ==
    IF gp = "None" THEN [i \in Range0(1) |-> BaseDir]
    ELSE IF rec.n > 1 THEN [i \in Range0(rec.n) |-> SubDir(i)]
    ELSE [i \in Range0(1) |-> SubDir(0)]

\* __init__, "make folders"
RECURSIVE MakeFolders(_, _, _)
MakeFolders(f, folders, i) ==
    IF i >= Len0(folders) THEN f
    ELSE MakeFolders(IF IsDir(f, folders[i]) THEN f ELSE MakeDirs(f, folders[i]),
                     folders, i + 1)

\* SorterClass(recording, output_folder, verbose, grouping_property, parallel,
\* delete_output_folder), SorterClass with the class attribute requires_locations.
Construct(rec, requires_locations, gp, par, del) ==
    /\ pc = "new"
    /\ ctor' = LET bad == ~installed \/ (requires_locations /\ ~rec.hasLoc)
               IN [bad |-> bad, groups |-> IF bad \/ gp = "None" THEN 0 ELSE rec.n]
    /\ ResetCall
    /\ LET err == InitError(rec, requires_locations) IN
       IF err /= ""
       THEN /\ pc' = "dead"
            /\ lastOp' = Op("init", "raise", err)
            /\ UNCHANGED <<classVars, selfVars, idx, fs, setupLog, runState>>
       ELSE LET c == default_params(heap) IN
            /\ parallel' = par
            /\ grouping_property' = gp
            /\ heap' = c.heap
            /\ params' = c.id
            /\ recording_list' = RecordingList(rec, gp)
            /\ output_folders' = OutputFolders(rec, gp)
            /\ fs' = MakeFolders(fs, OutputFolders(rec, gp), 0)
            /\ delete_folders' = del
            /\ pc' = "idle"
            /\ lastOp' = Op("init", "ok", "")
            /\ UNCHANGED <<regVars, handles, retParams, idx, setupLog, runState>>

\* The keyword arguments a caller passes to set_params.
KvSets == UNION {[ks -> Vals] : ks \in SUBSET (Keys \cup BadKeys)}

\* set_params, applying the known keys before it raises for the unknown ones.
SetParamsUpdateEager(h, o, kv, bad) ==
    [h EXCEPT ![o] = [k \in DOMAIN h[o] |-> IF k \in DOMAIN kv THEN IntV(kv[k]) ELSE h[o][k]]]

\* set_params as a bare self.params.update(params), no key refused.
SetParamsUpdateAll(h, o, kv, bad) ==
    [h EXCEPT ![o] = [k \in DOMAIN h[o] \cup DOMAIN kv |->
                         IF k \in DOMAIN kv THEN IntV(kv[k]) ELSE h[o][k]]]

\* set_params, self.params.update(params), reached only with no bad key.
SetParamsUpdate(h, o, kv, bad) ==
    IF bad /= {} THEN h
    ELSE [h EXCEPT ![o] = [k \in DOMAIN h[o] |-> IF k \in DOMAIN kv THEN IntV(kv[k]) ELSE h[o][k]]]

\* set_params, bad_params
BadParams(h, kv) == {p \in DOMAIN kv : p \notin DOMAIN h[DefaultParamsId]}

\* sorter.set_params(**kv)
SetParams(kv) ==
    /\ pc = "idle"
    /\ LET bad == BadParams(heap, kv) IN
       /\ errKeys' = bad
       /\ heap' = SetParamsUpdate(heap, params, kv, bad)
       /\ lastOp' = IF bad /= {} THEN Op("set_params", "raise", "AttributeError")
                    ELSE Op("set_params", "ok", "")
    /\ ret' = NullResult
    /\ retList' = EmptyList
    /\ rmFailed' = {}
    /\ UNCHANGED <<regVars, handles, retParams, pc, idx, selfVars, fs, setupLog,
                   runState, ctor>>

\* ------------------------------------------------------------------ run
\* sorter.run(), entered.
RunBegin ==
    /\ pc = "idle"
    /\ pc' = "setup"
    /\ idx' = 0
    /\ setupLog' = <<>>
    /\ runState' = [i \in DOMAIN recording_list |-> "none"]
    /\ lastOp' = Op("run", "pending", "")
    /\ ResetCall
    /\ UNCHANGED <<classVars, selfVars, fs, ctor>>

\* The first loop of run, left after the first partition.
SetupLoopDoneEarly == idx >= 1 \/ idx = N

\* The first loop of run has gone through every partition.
SetupLoopDone == idx = N

\* run, the first loop: _setup_recording(recording, self.output_folders[i]) returns.
SetupOk ==
    /\ pc = "setup"
    /\ ~SetupLoopDone
    /\ idx < N
    /\ IsDir(fs, output_folders[idx])
    /\ fs' = SetupRecording(fs, recording_list[idx], output_folders[idx])
    /\ setupLog' = Append(setupLog, idx)
    /\ idx' = idx + 1
    /\ UNCHANGED <<classVars, selfVars, callVars, pc, runState, lastOp, ctor>>

\* run, the first loop: _setup_recording raises, and so does run.
SetupRaise ==
    /\ pc = "setup"
    /\ ~SetupLoopDone
    /\ idx < N
    /\ pc' = "idle"
    /\ lastOp' = Op("run", "raise", "SetupError")
    /\ UNCHANGED <<classVars, selfVars, callVars, idx, fs, setupLog, runState, ctor>>

\* run taking the branch of the threads whatever self.parallel is.
StartTimerThreads ==
    /\ pc = "setup"
    /\ SetupLoopDone
    /\ pc' = "spawn"
    /\ idx' = 0
    /\ UNCHANGED <<classVars, selfVars, callVars, fs, setupLog, runState, lastOp, ctor>>

\* run, t0 = time.perf_counter() and the test of self.parallel.
StartTimer ==
    /\ pc = "setup"
    /\ SetupLoopDone
    /\ pc' = IF parallel THEN "spawn" ELSE "seq"
    /\ idx' = 0
    /\ UNCHANGED <<classVars, selfVars, callVars, fs, setupLog, runState, lastOp, ctor>>

\* run, not parallel: self._run(recording, self.output_folders[i]) is entered.
SeqRunStart ==
    /\ pc = "seq"
    /\ idx < N
    /\ runState[idx] = "none"
    /\ runState' = [runState EXCEPT ![idx] = "running"]
    /\ UNCHANGED <<classVars, selfVars, callVars, pc, idx, fs, setupLog, lastOp, ctor>>

\* run, not parallel: _run returns.
SeqRunOk(o) ==
    /\ pc = "seq"
    /\ idx < N
    /\ runState[idx] = "running"
    /\ fs' = RunTool(fs, recording_list[idx], output_folders[idx], o)
    /\ runState' = [runState EXCEPT ![idx] = o]
    /\ idx' = idx + 1
    /\ UNCHANGED <<classVars, selfVars, callVars, pc, setupLog, lastOp, ctor>>

\* run, not parallel, with the call of _run inside try / except: pass.
SeqRunSwallow ==
    /\ pc = "seq"
    /\ idx < N
    /\ runState[idx] = "running"
    /\ runState' = [runState EXCEPT ![idx] = "failed"]
    /\ idx' = idx + 1
    /\ UNCHANGED <<classVars, selfVars, callVars, pc, fs, setupLog, lastOp, ctor>>

\* run, not parallel: _run raises, and so does run.
SeqRunRaise ==
    /\ pc = "seq"
    /\ idx < N
    /\ runState[idx] = "running"
    /\ runState' = [runState EXCEPT ![idx] = "failed"]
    /\ pc' = "idle"
    /\ lastOp' = Op("run", "raise", "ExternalToolError")
    /\ UNCHANGED <<classVars, selfVars, callVars, idx, fs, setupLog, ctor>>

\* run, not parallel: the loop is over.
SeqDone ==
    /\ pc = "seq"
    /\ idx = N
    /\ pc' = "t1"
    /\ UNCHANGED <<classVars, selfVars, callVars, idx, fs, setupLog, runState, lastOp, ctor>>

\* run, parallel: threading.Thread(target=self._run, ...); thread.start()
Spawn ==
    /\ pc = "spawn"
    /\ idx < N
    /\ runState' = [runState EXCEPT ![idx] = "started"]
    /\ idx' = idx + 1
    /\ UNCHANGED <<classVars, selfVars, callVars, pc, fs, setupLog, lastOp, ctor>>

\* run, parallel: every thread is started.
SpawnDone ==
    /\ pc = "spawn"
    /\ idx = N
    /\ pc' = "join"
    /\ idx' = 0
    /\ UNCHANGED <<classVars, selfVars, callVars, fs, setupLog, runState, lastOp, ctor>>

\* The thread of partition i enters _run.
ThreadBegin(i) ==
    /\ i \in DOMAIN runState
    /\ runState[i] = "started"
    /\ runState' = [runState EXCEPT ![i] = "running"]
    /\ UNCHANGED <<classVars, selfVars, callVars, pc, idx, fs, setupLog, lastOp, ctor>>

\* The thread of partition i: _run returns and the thread ends (in the loop
\* without threads the _run in progress is the caller's own call).
ThreadOk(i, o) ==
    /\ pc /= "seq"
    /\ i \in DOMAIN runState
    /\ runState[i] = "running"
    /\ fs' = RunTool(fs, recording_list[i], output_folders[i], o)
    /\ runState' = [runState EXCEPT ![i] = o]
    /\ UNCHANGED <<classVars, selfVars, callVars, pc, idx, setupLog, lastOp, ctor>>

\* The thread of partition i: _run raises; threading reports the exception on
\* stderr and the thread ends.
ThreadRaise(i) ==
    /\ pc /= "seq"
    /\ i \in DOMAIN runState
    /\ runState[i] = "running"
    /\ runState' = [runState EXCEPT ![i] = "failed"]
    /\ UNCHANGED <<classVars, selfVars, callVars, pc, idx, fs, setupLog, lastOp, ctor>>

\* thread.join() that returns at once.
JoinNoWait(i) == TRUE

\* thread.join() returns once the thread has ended.
Joinable(i) == runState[i] \in RunOutputs \cup {"failed"}

\* run, parallel: thread.join() for the next thread.
Join ==
    /\ pc = "join"
    /\ idx < N
    /\ Joinable(idx)
    /\ idx' = idx + 1
    /\ UNCHANGED <<classVars, selfVars, callVars, pc, fs, setupLog, runState, lastOp, ctor>>

\* run, parallel: every thread is joined.
JoinDone ==
    /\ pc = "join"
    /\ idx = N
    /\ pc' = "t1"
    /\ UNCHANGED <<classVars, selfVars, callVars, idx, fs, setupLog, runState, lastOp, ctor>>

\* run, t1 = time.perf_counter() and return t1 - t0.
RunReturn ==
    /\ pc = "t1"
    /\ pc' = "idle"
    /\ lastOp' = Op("run", "ok", "")
    /\ UNCHANGED <<classVars, selfVars, callVars, idx, fs, setupLog, runState, ctor>>

\* ------------------------------------------------------------------ results
\* get_result_list reading every partition from the first output folder.
GetResultListFirstFolder(f) ==
    [i \in DOMAIN recording_list |-> GetResultFromFolder(f, output_folders[0])]

\* get_result_list(): the sorting of every partition, in partition order.
GetResultListValue(f) ==
    [i \in DOMAIN recording_list |-> GetResultFromFolder(f, output_folders[i])]

Raises(l) == \E i \in DOMAIN l : l[i].kind = "raise"

\* sorter.get_result_list()
GetResultList ==
    /\ pc = "idle"
    /\ LET l == GetResultListValue(fs) IN
       IF Raises(l)
       THEN /\ lastOp' = Op("get_result_list", "raise", "ExternalToolError")
            /\ retList' = EmptyList
       ELSE /\ lastOp' = Op("get_result_list", "ok", "")
            /\ retList' = l
    /\ errKeys' = {}
    /\ ret' = NullResult
    /\ rmFailed' = {}
    /\ UNCHANGED <<classVars, selfVars, pc, idx, fs, setupLog, runState, ctor>>

\* The positions of the non-null sortings of l, in order.
RECURSIVE NonNull(_, _)
NonNull(l, i) ==
    IF i >= Len0(l) THEN <<>>
    ELSE IF l[i].kind = "null" THEN NonNull(l, i + 1)
    ELSE <<i>> \o NonNull(l, i + 1)

\* get_result tagging after the nulls are dropped: the k-th surviving sorting
\* gets the group of partition k.
TagAfterFilter(l) ==
    LET keep == NonNull(l, 0)
    IN [k \in Range0(Len(keep)) |-> SetUnitProperty(l[keep[k + 1]], recording_list[k].grp)]

\* get_result tagging the units of partition i with the value of the grouping
\* property that made the partition (the i-th value).
TagWithGroupingValue(l) ==
    LET tagged == [i \in DOMAIN l |->
                      IF l[i].kind /= "null" THEN SetUnitProperty(l[i], i) ELSE l[i]]
        keep == NonNull(tagged, 0)
    IN [k \in Range0(Len(keep)) |-> tagged[keep[k + 1]]]

\* get_result, several partitions: every non-null sorting tagged with the
\* 'group' of the first channel of its partition, then the nulls dropped.
TagAndFilter(l) ==
    LET tagged == [i \in DOMAIN l |->
                      IF l[i].kind /= "null"
                      THEN SetUnitProperty(l[i], recording_list[i].grp)
                      ELSE l[i]]
        keep == NonNull(tagged, 0)
    IN [k \in Range0(Len(keep)) |-> tagged[keep[k + 1]]]

\* get_result merging and tagging whatever the number of partitions.
AssembleAlwaysMerge(l) == MultiSortingExtractor(TagAndFilter(l))

\* get_result, the sorting it assembles from the list.
Assemble(l) ==
    IF Len0(l) = 1 THEN l[0] ELSE MultiSortingExtractor(TagAndFilter(l))

\* get_result removing the folder of the first partition only.
FoldersToDeleteFirst ==
    IF delete_folders /\ Len0(output_folders) > 0 THEN {output_folders[0]} ELSE {}

\* get_result removing the folders whatever self.delete_folders is.
FoldersToDeleteAlways == {output_folders[i] : i \in DOMAIN output_folders}

\* get_result, the folders it removes.
FoldersToDelete ==
    IF delete_folders THEN {output_folders[i] : i \in DOMAIN output_folders} ELSE {}

\* The recording of the last partition.
LastRecording == recording_list[N - 1]

\* get_result, self.recording_list[0], whose sampling frequency the result gets.
FirstRecording == recording_list[0]

\* sorter.get_result(); the removals of the folders in kept fail.
GetResult(kept) ==
    /\ pc = "idle"
    /\ kept \subseteq FoldersToDelete
    /\ Raises(GetResultListValue(fs)) => kept = {}
    /\ LET l == GetResultListValue(fs) IN
       IF Raises(l)
       THEN /\ lastOp' = Op("get_result", "raise", "ExternalToolError")
            /\ ret' = NullResult
            /\ fs' = fs
            /\ rmFailed' = {}
       ELSE LET sorting == Assemble(l) IN
            /\ fs' = RmTrees(fs, FoldersToDelete, kept)
            /\ rmFailed' = kept
            /\ IF sorting.kind = "null"
               THEN /\ lastOp' = Op("get_result", "raise", "AttributeError")
                    /\ ret' = NullResult
               ELSE IF N = 0
               THEN /\ lastOp' = Op("get_result", "raise", "IndexError")
                    /\ ret' = NullResult
               ELSE /\ lastOp' = Op("get_result", "ok", "")
                    /\ ret' = [sorting EXCEPT !.sf = {SamplingFrequency(FirstRecording)}]
    /\ errKeys' = {}
    /\ retList' = EmptyList
    /\ UNCHANGED <<classVars, selfVars, pc, idx, setupLog, runState, ctor>>

\* ------------------------------------------------------------------ the caller's mappings
\* SorterClass.default_params(), the caller keeping the result.
DefaultParams ==
    /\ Cardinality(handles) < MaxCopies
    /\ LET c == default_params(heap) IN
       /\ heap' = c.heap
       /\ handles' = handles \cup {c.id}
       /\ retParams' = DeepValue(c.heap, c.id)
    /\ lastOp' = Op("default_params", "ok", "")
    /\ ResetCall
    /\ UNCHANGED <<regVars, pc, idx, selfVars, fs, setupLog, runState, ctor>>

\* What a caller passes as sorter_name_or_class: a string or a class, in the
\* registry or not.
SorterArgs == {[str |-> s, reg |-> r] : s, r \in BOOLEAN}

\* run_sorter / get_default_params, the lookup of sorter_name_or_class: the
\* exception it raises, "" for none.
Resolve(arg) ==
    IF arg.str THEN (IF arg.reg THEN "" ELSE "KeyError")
    ELSE IF arg.reg THEN ""
    ELSE "ValueError"

\* sorterlist.get_default_params(sorter_name_or_class)
GetDefaultParams(arg) ==
    /\ IF Resolve(arg) /= ""
       THEN /\ lastOp' = Op("get_default_params", "raise", Resolve(arg))
            /\ retParams' = NoKv
            /\ UNCHANGED <<heap, handles>>
       ELSE /\ Cardinality(handles) < MaxCopies
            /\ LET c == default_params(heap) IN
               /\ heap' = c.heap
               /\ handles' = handles \cup {c.id}
               /\ retParams' = DeepValue(c.heap, c.id)
            /\ lastOp' = Op("get_default_params", "ok", "")
    /\ ResetCall
    /\ UNCHANGED <<regVars, pc, idx, selfVars, fs, setupLog, runState, ctor>>

\* The caller assigns d[k] = v in a mapping d it holds.
MutateTop(o, k, v) ==
    /\ o \in handles
    /\ heap' = [heap EXCEPT ![o][k] = IntV(v)]
    /\ UNCHANGED <<regVars, handles, retParams, pc, idx, selfVars, fs, setupLog,
                   runState, lastOp, callVars, ctor>>

\* The caller changes in place the nested value d[k] of a mapping d it holds.
MutateNested(o, k, v) ==
    /\ o \in handles
    /\ heap[o][k].t = "ref"
    /\ heap' = [heap EXCEPT ![heap[o][k].v]["x"] = IntV(v)]
    /\ UNCHANGED <<regVars, handles, retParams, pc, idx, selfVars, fs, setupLog,
                   runState, lastOp, callVars, ctor>>

\* ------------------------------------------------------------------ Kilosort
\* The attributes BaseSorter.__init__ assigns on self.
InitAttrs ==
    {"verbose", "grouping_property", "parallel", "params", "recording_list",
     "output_folders", "delete_folders"}

\* The attributes the classes BaseSorter and KilosortSorter / Kilosort2Sorter
\* declare.
ClassAttrs ==
    {"sorter_name", "installed", "SortingExtractor_Class", "requires_locations",
     "_default_params", "sorter_gui_params", "installation_mesg", "kilosort_path",
     "kilosort2_path"}

\* The attributes a read of self.<name> finds on the instance.
SelfAttrs == IF pc \in {"new", "dead"} THEN ClassAttrs ELSE ClassAttrs \cup InitAttrs

\* The attributes KilosortSorter._run reads on self before it calls the command.
KilosortRunReads == {"debug"}

\* The attributes Kilosort2Sorter._run reads on self before it calls the command.
Kilosort2RunReads == {"debug"}

\* _run of KilosortSorter / Kilosort2Sorter up to the command: the exception
\* it raises, "" for none.
KilosortRunError(reads) == IF reads \subseteq SelfAttrs THEN "" ELSE "AttributeError"

\* run, not parallel, the adapter's _run: it raises at a read of self, or it
\* calls _call_command_split(cmd_list) and returns when the command has, the
\* tool having left o.
KilosortSeqRun(reads, o) ==
    /\ pc = "seq"
    /\ idx < N
    /\ runState[idx] = "running"
    /\ IF KilosortRunError(reads) /= ""
       THEN /\ runState' = [runState EXCEPT ![idx] = "failed"]
            /\ pc' = "idle"
            /\ lastOp' = Op("run", "raise", KilosortRunError(reads))
            /\ UNCHANGED <<idx, fs>>
       ELSE /\ fs' = RunTool(fs, recording_list[idx], output_folders[idx], o)
            /\ runState' = [runState EXCEPT ![idx] = o]
            /\ idx' = idx + 1
            /\ UNCHANGED <<pc, lastOp>>
    /\ UNCHANGED <<classVars, selfVars, callVars, setupLog, ctor>>

\* The thread of partition i, the adapter's _run: the same, the exception
\* ending the thread only.
KilosortThreadRun(i, reads, o) ==
    /\ pc /= "seq"
    /\ i \in DOMAIN runState
    /\ runState[i] = "running"
    /\ IF KilosortRunError(reads) /= ""
       THEN /\ runState' = [runState EXCEPT ![i] = "failed"]
            /\ fs' = fs
       ELSE /\ fs' = RunTool(fs, recording_list[i], output_folders[i], o)
            /\ runState' = [runState EXCEPT ![i] = o]
    /\ UNCHANGED <<classVars, selfVars, callVars, pc, idx, setupLog, lastOp, ctor>>

\* ------------------------------------------------------------------ sorterlist
\* KilosortSorter.set_kilosort_path(path)
SetKilosortPath(path) ==
    /\ installed' = CheckIfInstalled(path)
    /\ lastOp' = Op("set_kilosort_path", "ok", "")
    /\ ResetCall
    /\ UNCHANGED <<installed2, installed_sorter_list, retNames, heap, handles, retParams,
                   pc, idx, selfVars, fs, setupLog, runState, ctor>>

\* Kilosort2Sorter.set_kilosort2_path(path)
SetKilosort2Path(path) ==
    /\ installed2' = CheckIfInstalled(path)
    /\ lastOp' = Op("set_kilosort2_path", "ok", "")
    /\ ResetCall
    /\ UNCHANGED <<installed, installed_sorter_list, retNames, heap, handles, retParams,
                   pc, idx, selfVars, fs, setupLog, runState, ctor>>

\* sorterlist.installed_sorters()
InstalledSorters ==
    /\ retNames' = Sorted(installed_sorter_list)
    /\ lastOp' = Op("installed_sorters", "ok", "")
    /\ ResetCall
    /\ UNCHANGED <<installed, installed2, installed_sorter_list, heap, handles, retParams,
                   pc, idx, selfVars, fs, setupLog, runState, ctor>>

\* sorterlist.available_sorters()
AvailableSorters ==
    /\ retNames' = Sorted(sorter_full_list)
    /\ lastOp' = Op("available_sorters", "ok", "")
    /\ ResetCall
    /\ UNCHANGED <<installed, installed2, installed_sorter_list, heap, handles, retParams,
                   pc, idx, selfVars, fs, setupLog, runState, ctor>>

\* ------------------------------------------------------------------ specifications
ConstructAny ==
    \E rec \in Recordings, req \in BOOLEAN, gp \in {"None", "group", "other"},
       par \in BOOLEAN, del \in BOOLEAN : Construct(rec, req, gp, par, del)

\* Construction on a recording taken whole, sequential, folders kept.
ConstructUngrouped ==
    \E rec \in Recordings, req \in BOOLEAN : Construct(rec, req, "None", FALSE, FALSE)

\* ------------------------------------------------------------------ run_sorter
\* run_sorter(sorter_name_or_class, recording, ...), entered: the lookup of the
\* class.
RunSorterResolve(arg) ==
    /\ pc = "new"
    /\ lastOp.op = "none"
    /\ lastOp' = Op("run_sorter", IF Resolve(arg) = "" THEN "ok" ELSE "raise", Resolve(arg))
    /\ ResetCall
    /\ UNCHANGED <<classVars, selfVars, pc, idx, fs, setupLog, runState, ctor>>

\* run_sorter is at sorter = SorterClass(...): the lookup has returned.
RunSorterAtConstruct == lastOp = Op("run_sorter", "ok", "")

\* run_sorter is at sorter.set_params(**params): the constructor has returned.
RunSorterAtSetParams == lastOp = Op("init", "ok", "")

\* run_sorter with sorter.set_params(**params) inside try / except: pass.
RunSorterAtRunUnchecked == lastOp.op = "set_params"

\* run_sorter is at sorter.run(): set_params has returned.
RunSorterAtRun == lastOp = Op("set_params", "ok", "")

\* run_sorter is at sorter.get_result(): run has returned.
RunSorterAtGetResult == pc = "idle" /\ lastOp = Op("run", "ok", "")

\* run_sorter, sorter = SorterClass(recording=recording, ...)
RunSorterConstruct == RunSorterAtConstruct /\ ConstructAny

\* run_sorter, sorter.set_params(**params)
RunSorterSetParams == RunSorterAtSetParams /\ \E kv \in KvSets : SetParams(kv)

\* run_sorter, sorter.run()
RunSorterRun == RunSorterAtRun /\ RunBegin

\* run_sorter, sortingextractor = sorter.get_result() and the return of it.
RunSorterGetResult == RunSorterAtGetResult /\ \E kept \in SUBSET AllDirs : GetResult(kept)

\* One lifecycle: construction, then any sequence of run, get_result_list and
\* get_result (set_params, which none of them reads, is in SpecParams).
Next ==
    \/ ConstructAny
    \/ RunBegin
    \/ SetupOk
    \/ SetupRaise
    \/ StartTimer
    \/ SeqRunStart
    \/ \E o \in RunOutputs : SeqRunOk(o)
    \/ SeqRunRaise
    \/ SeqDone
    \/ Spawn
    \/ SpawnDone
    \/ \E i \in Range0(MaxGroups) : ThreadBegin(i)
    \/ \E i \in Range0(MaxGroups), o \in RunOutputs : ThreadOk(i, o)
    \/ \E i \in Range0(MaxGroups) : ThreadRaise(i)
    \/ Join
    \/ JoinDone
    \/ RunReturn
    \/ GetResultList
    \/ \E kept \in SUBSET AllDirs : GetResult(kept)

Spec == Init /\ [][Next]_vars

\* The parameter mappings: the class's defaults, the copies handed out, the
\* instance's parameters, and a caller who changes what it holds.
NextParams ==
    \/ ConstructUngrouped
    \/ \E kv \in KvSets : SetParams(kv)
    \/ DefaultParams
    \/ \E arg \in SorterArgs : GetDefaultParams(arg)
    \/ \E o \in 1 .. Len(heap), k \in Keys, v \in Vals : MutateTop(o, k, v)
    \/ \E o \in 1 .. Len(heap), k \in Keys, v \in Vals : MutateNested(o, k, v)

\* The adapter installed and the output folder not there yet.
InitParams == Init /\ installed /\ fs = [d \in AllDirs |-> Absent]

SpecParams == InitParams /\ [][NextParams]_vars

\* The registry of sorterlist: the paths set, the names listed.
NextRegistry ==
    \/ \E path \in Paths : SetKilosortPath(path)
    \/ \E path \in Paths : SetKilosort2Path(path)
    \/ InstalledSorters
    \/ AvailableSorters

SpecRegistry == Init /\ [][NextRegistry]_vars

\* One call of run_sorter, or one of get_default_params, on the module as
\* imported.
NextRunSorter ==
    \/ \E arg \in SorterArgs : pc = "new" /\ lastOp.op = "none" /\ GetDefaultParams(arg)
    \/ \E arg \in SorterArgs : RunSorterResolve(arg)
    \/ RunSorterConstruct
    \/ RunSorterSetParams
    \/ RunSorterRun
    \/ SetupOk
    \/ SetupRaise
    \/ StartTimer
    \/ SeqRunStart
    \/ \E o \in RunOutputs : SeqRunOk(o)
    \/ SeqRunRaise
    \/ SeqDone
    \/ Spawn
    \/ SpawnDone
    \/ \E i \in Range0(MaxGroups) : ThreadBegin(i)
    \/ \E i \in Range0(MaxGroups), o \in RunOutputs : ThreadOk(i, o)
    \/ \E i \in Range0(MaxGroups) : ThreadRaise(i)
    \/ Join
    \/ JoinDone
    \/ RunReturn
    \/ RunSorterGetResult

SpecRunSorter == Init /\ [][NextRunSorter]_vars

\* Construction on a recording of at most two groups, no locations required.
ConstructFewGroups ==
    \E rec \in Recordings, gp \in {"None", "group"}, par \in BOOLEAN, del \in BOOLEAN :
        rec.n <= 2 /\ Construct(rec, FALSE, gp, par, del)

\* Every public call of one lifecycle, set_params among them, in any order.
NextFolders ==
    \/ ConstructFewGroups
    \/ \E kv \in KvSets : SetParams(kv)
    \/ RunBegin
    \/ SetupOk
    \/ SetupRaise
    \/ StartTimer
    \/ SeqRunStart
    \/ \E o \in RunOutputs : SeqRunOk(o)
    \/ SeqRunRaise
    \/ SeqDone
    \/ Spawn
    \/ SpawnDone
    \/ \E i \in Range0(MaxGroups) : ThreadBegin(i)
    \/ \E i \in Range0(MaxGroups), o \in RunOutputs : ThreadOk(i, o)
    \/ \E i \in Range0(MaxGroups) : ThreadRaise(i)
    \/ Join
    \/ JoinDone
    \/ RunReturn
    \/ GetResultList
    \/ \E kept \in SUBSET AllDirs : GetResult(kept)

SpecFolders == Init /\ [][NextFolders]_vars

\* A KilosortSorter or Kilosort2Sorter: construction and run.
NextKilosort ==
    \/ ConstructAny
    \/ RunBegin
    \/ SetupOk
    \/ SetupRaise
    \/ StartTimer
    \/ SeqRunStart
    \/ \E reads \in {KilosortRunReads, Kilosort2RunReads}, o \in RunOutputs :
          KilosortSeqRun(reads, o)
    \/ SeqDone
    \/ Spawn
    \/ SpawnDone
    \/ \E i \in Range0(MaxGroups) : ThreadBegin(i)
    \/ \E i \in Range0(MaxGroups), reads \in {KilosortRunReads, Kilosort2RunReads},
          o \in RunOutputs : KilosortThreadRun(i, reads, o)
    \/ Join
    \/ JoinDone
    \/ RunReturn

SpecKilosort == Init /\ [][NextKilosort]_vars

\* ------------------------------------------------------------------ properties
Begun(i) == runState[i] /= "none"
Ended(i) == runState[i] \in RunOutputs \cup {"failed"}
RunOk == lastOp.op = "run" /\ lastOp.outcome = "ok"
Folder(i) == output_folders[i]

\* C1: in run, sequential or parallel, _setup_recording returns for the
\* partitions in partition order, and no thread is started and no _run entered
\* for any partition before it has returned for every partition.
C1_SetupBeforeRun ==
    /\ \A k \in 1 .. Len(setupLog) : setupLog[k] = k - 1
    /\ (\E i \in DOMAIN runState : Begun(i)) => Len(setupLog) = N

C1_Witness ==
    /\ parallel
    /\ N >= 2
    /\ \E i \in DOMAIN runState : runState[i] = "running"
    /\ Len(setupLog) = N

\* C2: in parallel mode run has started a thread for every partition before it
\* joins, and every partition's _run has ended (returned or raised) when run
\* takes the end timestamp and when it returns.
C2_JoinBeforeReturn ==
    parallel =>
        /\ pc = "join" => \A i \in DOMAIN runState : Begun(i)
        /\ (pc = "t1" \/ RunOk) => \A i \in DOMAIN runState : Ended(i)

C2_Witness ==
    /\ parallel
    /\ N >= 2
    /\ pc = "idle"
    /\ RunOk
    /\ \A i \in DOMAIN runState : runState[i] = "out"

\* C3: in parallel mode, when the _run of a partition has raised, run does not
\* return normally.
C3_FailureObservable ==
    (parallel /\ RunOk) => \A i \in DOMAIN runState : runState[i] /= "failed"

\* C4: a set_params call with a key outside the declared defaults raises, the
\* error names every such key, and no object changes; a call with declared keys
\* only sets exactly those keys of the instance's parameters to the given
\* values and changes nothing else.
C4_SetParamsAtomic ==
    [][\A kv \in KvSets :
          SetParams(kv) =>
              LET bad == DOMAIN kv \ Keys IN
              IF bad /= {}
              THEN /\ lastOp'.outcome = "raise"
                   /\ errKeys' = bad
                   /\ heap' = heap
              ELSE /\ lastOp'.outcome = "ok"
                   /\ \A k \in Keys :
                         heap'[params][k] =
                             IF k \in DOMAIN kv THEN IntV(kv[k]) ELSE heap[params][k]
                   /\ \A o \in 1 .. Len(heap) : o /= params => heap'[o] = heap[o]]_vars

C4_Witness ==
    /\ lastOp = Op("set_params", "raise", "AttributeError")
    /\ errKeys = BadKeys
    /\ DeepValue(heap, params) = DeclaredDefaults

\* C5: when run has gone through every partition and the folders are still
\* there, get_result_list returns one slot per partition, as many as the
\* grouping property has values, and slot i is the sorting partition i's own
\* tool run wrote (null if it wrote nothing usable), in either mode.
C5_ResultSlots ==
    (/\ lastOp = Op("get_result_list", "ok", "")
     /\ DOMAIN runState = Range0(N)
     /\ \A i \in DOMAIN runState : runState[i] \in RunOutputs /\ IsDir(fs, Folder(i)))
    => /\ DOMAIN retList = Range0(N)
       /\ grouping_property /= "None" => N = ctor.groups
       /\ \A i \in DOMAIN retList :
             retList[i] = IF runState[i] = "out" THEN Sorting(i) ELSE NullResult

C5_Witness ==
    /\ lastOp = Op("get_result_list", "ok", "")
    /\ parallel
    /\ N = 3
    /\ DOMAIN runState = Range0(N)
    /\ \A i \in DOMAIN runState : runState[i] \in RunOutputs
    /\ retList[0] = Sorting(0)
    /\ retList[1] = NullResult
    /\ retList[2] = Sorting(2)

\* C6: with several partitions, a get_result that returns gives the merge of
\* exactly the non-null sortings: every unit of every partition whose folder
\* parses to a sorting, tagged with the 'group' of the first channel of that
\* partition, and no other unit.
C6_MergeDropsNulls ==
    [][(/\ pc = "idle"
        /\ lastOp'.op = "get_result"
        /\ lastOp'.outcome = "ok"
        /\ N > 1)
       => /\ ret'.kind = "multi"
          /\ ret'.units =
                {[src |-> i, unit |-> u, tag |-> {recording_list[i].grp}] :
                    i \in {j \in DOMAIN recording_list : fs[Folder(j)].st = "out"},
                    u \in 1 .. NUnits}]_vars

C6_Witness ==
    /\ lastOp = Op("get_result", "ok", "")
    /\ N = 3
    /\ grouping_property = "group"
    /\ DOMAIN runState = Range0(N)
    /\ runState[1] = "nothing"
    /\ ret.units = {[src |-> i, unit |-> u, tag |-> {i}] : i \in {0, 2}, u \in 1 .. NUnits}

\* C7: with exactly one partition, a get_result that returns gives that
\* partition's own sorting: not a merge, and no unit carries a 'group'.
C7_SingleUnmerged ==
    (lastOp = Op("get_result", "ok", "") /\ N = 1)
    => /\ ret.kind = "single"
       /\ ret.units = Sorting(0).units
       /\ \A u \in ret.units : u.tag = {}

C7_Witness ==
    /\ lastOp = Op("get_result", "ok", "")
    /\ N = 1
    /\ grouping_property = "group"
    /\ ret.kind = "single"

\* C8 as claimed: once get_result has been called with delete-on-completion
\* set, however it ended, no partition's folder exists (here even granted that
\* no removal failed).
C8_AlwaysCleaned ==
    (lastOp.op = "get_result" /\ delete_folders /\ rmFailed = {})
    => \A i \in DOMAIN recording_list : ~IsDir(fs, Folder(i))

\* C8 amended: a get_result with delete-on-completion set that gets past the
\* parsing of the folders (it returns, or raises only at the sampling-frequency
\* stamp) leaves no partition's folder whose removal did not fail; one that
\* raises in parsing leaves the filesystem as it was.
C8_CleanedAfterAssembly ==
    [][(/\ pc = "idle"
        /\ lastOp'.op = "get_result"
        /\ delete_folders)
       => IF lastOp'.err = "ExternalToolError"
          THEN fs' = fs
          ELSE \A i \in DOMAIN recording_list :
                  Folder(i) \notin rmFailed' => ~IsDir(fs', Folder(i))]_vars

C8_Witness ==
    /\ lastOp = Op("get_result", "ok", "")
    /\ delete_folders
    /\ N = 3
    /\ rmFailed = {}
    /\ \A i \in DOMAIN recording_list : ~IsDir(fs, Folder(i))

\* C9: whatever the caller has done to the mappings it was handed and whatever
\* set_params has done to the instance, the class's defaults equal their
\* declaration, and so does the mapping default_params() or
\* get_default_params() last returned, as returned.
C9_DefaultsFresh ==
    /\ DeepValue(heap, DefaultParamsId) = DeclaredDefaults
    /\ (lastOp.op \in {"default_params", "get_default_params"} /\ lastOp.outcome = "ok")
       => retParams = DeclaredDefaults

C9_Witness ==
    /\ lastOp = Op("default_params", "ok", "")
    /\ retParams = DeclaredDefaults
    /\ \E o \in handles :
          /\ heap[o]["a"] = IntV(1)
          /\ heap[o]["b"].t = "ref"
          /\ heap[heap[o]["b"].v]["x"] = IntV(1)
    /\ pc = "idle"
    /\ heap[params]["a"] = IntV(1)

\* C10: the constructor raises exactly when the adapter is not installed or
\* it requires locations and the recording has none; when it raises, no
\* directory has been created, and no _setup_recording or _run happens then or
\* afterwards.
C10_ConstructionFailsFirst ==
    [][/\ (pc = "new" /\ pc' /= "new") =>
             /\ ctor'.bad <=> pc' = "dead"
             /\ pc' = "dead" => lastOp' \in {Op("init", "raise", "AssertionError"),
                                            Op("init", "raise", "RuntimeError")}
       /\ (pc' = "dead") =>
             /\ fs' = fs
             /\ setupLog' = <<>>
             /\ runState' = EmptyList]_vars

C10_Witness ==
    /\ pc = "dead"
    /\ installed
    /\ lastOp = Op("init", "raise", "RuntimeError")
    /\ \A d \in AllDirs : ~IsDir(fs, d)

\* C11: run_sorter and get_default_params fail with one and the same kind of
\* error, for a string that names no registered sorter as for a class that is
\* not registered (the kind the code raises by name, ValueError('Unknown
\* sorter')), and then nothing is constructed and no directory is created.
C11_OneUnknownSorterError ==
    (lastOp.op \in {"run_sorter", "get_default_params"} /\ lastOp.outcome = "raise") =>
        /\ lastOp.err = "ValueError"
        /\ pc = "new"
        /\ fs \in InitialFs

\* C12: what installed_sorters() returns is, sorted, exactly the registered
\* names whose adapter reports installed = True at the time of the call,
\* whatever paths were set before it.
C12_InstalledRecomputed ==
    lastOp.op = "installed_sorters" => retNames = Sorted(InstalledOf(installed, installed2))

\* C13, as stated: with more than one partition, partition i works in the
\* subfolder str(i) of the output folder; with exactly one partition, with a
\* grouping key or without, it works in the output folder itself.
C13_SingleInBase ==
    pc \notin {"new", "dead"} =>
        /\ N > 1 => \A i \in DOMAIN recording_list : output_folders[i] = SubDir(i)
        /\ N = 1 => output_folders[0] = BaseDir

\* C13, amended: without a grouping key the one partition works in the output
\* folder itself; with a grouping key partition i works in the subfolder
\* str(i), also when the key yields a single group (subfolder "0").
C13_FolderLayout ==
    pc \notin {"new", "dead"} =>
        /\ grouping_property = "None" => N = 1 /\ output_folders[0] = BaseDir
        /\ grouping_property /= "None" =>
              \A i \in DOMAIN recording_list : output_folders[i] = SubDir(i)

C13_Witness ==
    /\ pc = "idle"
    /\ grouping_property /= "None"
    /\ N = 1
    /\ output_folders[0] = SubDir(0)
    /\ IsDir(fs, SubDir(0))

C15_ParamKeysAreDefaultKeys ==
    params /= 0 =>
        /\ DOMAIN heap[params] = DOMAIN DeclaredHeap[DefaultParamsId]
        /\ DOMAIN heap[DefaultParamsId] = DOMAIN DeclaredHeap[DefaultParamsId]

C15_Witness ==
    /\ params /= 0
    /\ lastOp = Op("set_params", "raise", "AttributeError")
    /\ errKeys /= {}
    /\ heap[params]["a"] = IntV(1)
    /\ DOMAIN heap[params] = Keys

\* C16: when parallel is not set, the _run calls happen one at a time and in
\* partition order: partition i's _run is entered only when the _run of every
\* partition before it has returned, and no two are in progress together.
C16_SequentialInOrder ==
    ~parallel =>
        /\ \A i, j \in DOMAIN runState : (j < i /\ Begun(i)) => runState[j] \in RunOutputs
        /\ Cardinality({i \in DOMAIN runState : runState[i] \in {"started", "running"}}) <= 1

C16_Witness ==
    /\ ~parallel
    /\ N = MaxGroups
    /\ pc = "seq"
    /\ runState[N - 1] = "running"
    /\ \A j \in Range0(N - 1) : runState[j] \in RunOutputs

\* C17: the folders of one instance are pairwise distinct, so what a
\* partition's folder holds was put there by the _setup_recording / _run of
\* that partition's recording and of no other.
C17_FoldersDistinct ==
    /\ \A i, j \in DOMAIN output_folders : i /= j => output_folders[i] /= output_folders[j]
    /\ \A i \in DOMAIN recording_list : fs[Folder(i)].by \subseteq {recording_list[i].id}

C17_Witness ==
    /\ parallel
    /\ N = MaxGroups
    /\ Cardinality({i \in DOMAIN runState : runState[i] = "running"}) >= 2
    /\ \A i \in DOMAIN recording_list : fs[Folder(i)].by = {recording_list[i].id}

\* C18: with exactly one partition whose folder parses to null, get_result
\* returns null to the caller rather than failing (seen here where the folders
\* are kept, so that the folder still is what get_result parsed).
C18_NullPropagated ==
    (/\ lastOp.op = "get_result"
     /\ N = 1
     /\ ~delete_folders
     /\ GetResultFromFolder(fs, Folder(0)) = NullResult)
    => lastOp.outcome = "ok" /\ ret = NullResult

\* C19: whatever get_result returns, one partition's own sorting or a merge,
\* carries the sampling frequency of the first partition's recording.
C19_StampedWithFirst ==
    lastOp = Op("get_result", "ok", "") => ret.sf = {SamplingFrequency(recording_list[0])}

C19_Witness ==
    /\ lastOp = Op("get_result", "ok", "")
    /\ N = MaxGroups
    /\ ret.kind = "multi"
    /\ ret.units /= {}
    /\ ret.sf = {SamplingFrequency(recording_list[0])}
    /\ ret.sf /= {SamplingFrequency(recording_list[N - 1])}

\* C20: run_sorter does, in this order and each at most once, the lookup of
\* the class, the construction, set_params with the extra keyword arguments,
\* run and get_result, each step only when the one before it has returned;
\* when a step raises nothing more is done, so that after a set_params refused
\* for an unknown key no _setup_recording and no _run has happened; and
\* get_result is the last step, its value the value of run_sorter.
C20_RunSorterSteps ==
    [][/\ ConstructAny => lastOp = Op("run_sorter", "ok", "")
       /\ (\E kv \in KvSets : SetParams(kv)) => lastOp = Op("init", "ok", "")
       /\ RunBegin => lastOp = Op("set_params", "ok", "")
       /\ (\E kept \in SUBSET AllDirs : GetResult(kept)) =>
             pc = "idle" /\ lastOp = Op("run", "ok", "")
       /\ lastOp.outcome = "raise" => UNCHANGED vars
       /\ lastOp.op = "get_result" => UNCHANGED vars
       /\ lastOp'.op = "set_params" /\ lastOp'.outcome = "raise" =>
             /\ setupLog' = <<>>
             /\ runState' = EmptyList
             /\ \A d \in AllDirs : fs'[d].by = {}]_vars

C20_Witness ==
    /\ lastOp = Op("set_params", "raise", "AttributeError")
    /\ errKeys /= {}
    /\ pc = "idle"
    /\ N = MaxGroups
    /\ setupLog = <<>>
    /\ runState = EmptyList

\* C21: when parallel is not set, a _setup_recording that raises ends run at
\* once with that failure and with no _run entered for any partition; a _run
\* that raises for partition i ends run at once with that failure and with no
\* _run entered for a partition after i; and once run has raised, no _run
\* happens until the caller calls run again (nothing is retried).
C21_SequentialFailureEndsRun ==
    [][~parallel =>
         /\ (pc = "setup" /\ pc' = "idle") =>
               /\ lastOp' = Op("run", "raise", "SetupError")
               /\ \A i \in DOMAIN runState' : runState'[i] = "none"
         /\ \A i \in DOMAIN runState :
               (runState[i] = "running" /\ runState'[i] = "failed") =>
                   /\ pc' = "idle"
                   /\ lastOp' = Op("run", "raise", "ExternalToolError")
                   /\ \A j \in DOMAIN runState' : j > i => runState'[j] = "none"
         /\ (lastOp.op = "run" /\ lastOp.outcome = "raise") =>
               runState' = runState \/ RunBegin]_vars

C21_Witness ==
    /\ ~parallel
    /\ N = MaxGroups
    /\ pc = "idle"
    /\ lastOp = Op("run", "raise", "ExternalToolError")
    /\ runState[0] \in RunOutputs
    /\ runState[1] = "failed"
    /\ \A j \in DOMAIN runState : j > 1 => runState[j] = "none"

\* C22: a folder goes away only in a step of get_result, only with
\* delete_folders set, and only when the parser has returned for every
\* partition; construction, set_params, run and get_result_list remove
\* nothing; get_result with delete_folders unset leaves every folder as it is;
\* and whether get_result returns or raises is decided by what was parsed, not
\* by a removal that failed.
C22_RemovalOnlyByGetResult ==
    [][LET l == GetResultListValue(fs) IN
       /\ (\E d \in AllDirs : IsDir(fs, d) /\ ~IsDir(fs', d)) =>
             /\ \E kept \in SUBSET AllDirs : GetResult(kept)
             /\ delete_folders
             /\ ~Raises(l)
       /\ (\E kept \in SUBSET AllDirs : GetResult(kept)) =>
             /\ ~delete_folders =>
                   /\ fs' = fs
                   /\ \A i \in DOMAIN output_folders : IsDir(fs', Folder(i))
             /\ ~Raises(l) =>
                   (lastOp'.outcome = "ok" <=> (Assemble(l).kind /= "null" /\ N >= 1))]_vars

C22_Witness ==
    /\ delete_folders
    /\ N = 2
    /\ lastOp = Op("get_result", "ok", "")
    /\ rmFailed = {Folder(1)}
    /\ ~IsDir(fs, Folder(0))
    /\ IsDir(fs, Folder(1))
    /\ params /= 0
    /\ heap[params]["a"] = IntV(1)

\* C23: when the constructor has returned, self.recording_list and
\* self.output_folders have the same length, for any number of groups the
\* grouping yields, and every folder listed exists, whether it existed before
\* or not.
C23_OneFolderPerPartition ==
    lastOp = Op("init", "ok", "") =>
        /\ Len0(recording_list) = Len0(output_folders)
        /\ \A i \in DOMAIN output_folders : IsDir(fs, output_folders[i])

\* C24: whenever the _run of a KilosortSorter or Kilosort2Sorter is in
\* progress on a constructed and staged instance, every attribute it reads on
\* self is one the instance has, and a _run that has ended has called the
\* command and returned after it (it has not raised before the call).
C24_RunReachesCommand ==
    \A i \in DOMAIN runState :
        /\ (runState[i] = "running" /\ Len(setupLog) = N) =>
              KilosortRunReads \cup Kilosort2RunReads \subseteq SelfAttrs
        /\ Ended(i) => runState[i] \in RunOutputs

\* C25: in a merged result the units of partition i carry as 'group' the value
\* the property 'group' has on the first channel of partition i's recording,
\* whichever property split the recording; when that property is 'group'
\* itself, this is the partition's grouping value.
C25_TagIsGroupOfFirstChannel ==
    (lastOp = Op("get_result", "ok", "") /\ ret.kind = "multi") =>
        \A u \in ret.units :
            /\ u.tag = {recording_list[u.src].grp}
            /\ grouping_property = "group" => u.tag = {u.src}

C25_Witness ==
    /\ lastOp = Op("get_result", "ok", "")
    /\ ret.kind = "multi"
    /\ grouping_property = "other"
    /\ \E u \in ret.units : u.tag /= {u.src} /\ u.tag = {recording_list[u.src].grp}

====
